---- MODULE Spec2Model ----
(***************************************************************************)
(* URL shortener (src/src/main.rs): two axum handlers over two external    *)
(* stores.  POST /shorten (create_shorten_url) increments the Redis        *)
(* counter "url_id", encodes id + 14_000_000 with generate_short_url and   *)
(* inserts (short_url, long_url) into the Cassandra table urls.            *)
(* GET /:short_url (redirect_to_long_url) selects long_url by short_url.   *)
(*                                                                         *)
(* Every `.await` of a handler is a suspension point, so a handler is one  *)
(* action per segment between awaits, and the store's execution of the     *)
(* command sent at an await is an action of its own.  A store call has     *)
(* three outcomes: executed and answered (Ok); not executed (Err); and     *)
(* executed but the answer lost or timed out (Err): the client library     *)
(* reports every I/O error as Err, whatever the server did before it.      *)
(***************************************************************************)
EXTENDS Integers, Sequences, FiniteSets, TLC

\* ---- bounds of the model ------------------------------------------------
MaxCreates == 2
MaxResolves == 1
MaxEncId == 64

CreateIds == 1..MaxCreates
ResolveIds == 1..MaxResolves

\* ---- program constants --------------------------------------------------
BaseOffset == 14000000
Radix == 62

\* A faulty alphabet: the URL-safe base-64 one cut to 62, "-" and "_" in
\* place of "8" and "9".
AlphabetUrlSafe ==
  << "a","b","c","d","e","f","g","h","i","j","k","l","m",
     "n","o","p","q","r","s","t","u","v","w","x","y","z",
     "A","B","C","D","E","F","G","H","I","J","K","L","M",
     "N","O","P","Q","R","S","T","U","V","W","X","Y","Z",
     "0","1","2","3","4","5","6","7","-","_" >>

\* "abcdefghijklmnopqrstuvwxyzABCDEFGHIJKLMNOPQRSTUVWXYZ0123456789".chars()
Alphabet ==
  << "a","b","c","d","e","f","g","h","i","j","k","l","m",
     "n","o","p","q","r","s","t","u","v","w","x","y","z",
     "A","B","C","D","E","F","G","H","I","J","K","L","M",
     "N","O","P","Q","R","S","T","U","V","W","X","Y","Z",
     "0","1","2","3","4","5","6","7","8","9" >>

DefaultSecret == "default_secret"

\* Values of the environment variable SECRET_KEY: {} is "not set".
EnvValues == { {}, {"s3cret"} }

\* Request bodies, as byte strings: "http", and "h\n" (JSON "h\u000a").
LongUrls == { <<104, 116, 116, 112>>, <<104, 10>> }

\* ---- generate_short_url -------------------------------------------------

\* blake3::hash(secret_key.as_bytes()).into(): the 32-byte seed, here a
\* number fixed per key.
Blake3Seed(secret_key) ==
  IF secret_key = DefaultSecret THEN 4711 ELSE 1234

\* One draw of the seeded generator (ChaCha8Rng): a deterministic function of
\* the generator's state, here a linear congruential step.
NextRng(x) == (x * 75 + 74) % 65537

\* A faulty shuffle: the drawn element is copied over position i, not swapped.
SwapOverwrites(a, i, j) == [a EXCEPT ![i] = a[j]]

Swap(a, i, j) == [a EXCEPT ![i] = a[j], ![j] = a[i]]

\* SliceRandom::shuffle: for i in (1..len).rev() { swap(i, gen_index(i + 1)) }
\* (indices here are 1-based).
RECURSIVE ShuffleFrom(_, _, _)
ShuffleFrom(a, i, rng) ==
  IF i < 2 THEN a
  ELSE LET r == NextRng(rng)
           j == 1 + (r % i)
       IN ShuffleFrom(Swap(a, i, j), i - 1, r)

shuffle(a, seed) == ShuffleFrom(a, Len(a), seed)

\* while id > 0 { encoded.push(alphabet[id % 62]); id /= 62; }
RECURSIVE EncodeLoop(_, _)
EncodeLoop(alphabet, id) ==
  IF id > 0
  THEN <<alphabet[(id % Radix) + 1]>> \o EncodeLoop(alphabet, id \div Radix)
  ELSE <<>>

RECURSIVE Rev(_)
Rev(s) == IF s = <<>> THEN <<>> ELSE Rev(Tail(s)) \o <<Head(s)>>

\* alphabet.shuffle(&mut rng), rng seeded with the hash of the key.  The code
\* shuffles at every call, from the same inputs; here once per key.
SecretKeys == {DefaultSecret} \cup UNION EnvValues

ShuffledAlphabets ==
  [k \in SecretKeys |-> shuffle(Alphabet, Blake3Seed(k))]

\* A faulty encoder: the loop divides before it pushes, so the least
\* significant digit is never encoded.
generate_short_url_skips_digit(secret_key, id) ==
  LET alphabet == ShuffledAlphabets[secret_key]
      pushed == EncodeLoop(alphabet, id \div Radix)
      encoded == IF pushed = <<>> THEN <<alphabet[1]>> ELSE pushed
  IN Rev(encoded)

\* A faulty encoder: without the `if encoded.is_empty()` branch.
generate_short_url_no_empty_case(secret_key, id) ==
  LET alphabet == ShuffledAlphabets[secret_key]
  IN Rev(EncodeLoop(alphabet, id))

generate_short_url(secret_key, id) ==
  LET alphabet == ShuffledAlphabets[secret_key]
      pushed == EncodeLoop(alphabet, id)
      encoded == IF pushed = <<>> THEN <<alphabet[1]>> ELSE pushed
  IN Rev(encoded)

\* ---- state ----------------------------------------------------------------
VARIABLES
  env,       \* the process environment: the value of SECRET_KEY
  url_id,    \* Redis: the integer under key "url_id" (0: key absent)
  urls,      \* Cassandra: table urls, short_url (primary key) -> the row's
             \* other columns, long_url and created_at
  creates,   \* POST /shorten requests
  resolves,  \* GET /:short_url requests
  incr_log,  \* the values INCR returned, in the order Redis executed them
  enc        \* calls of generate_short_url made apart from any request

vars == <<env, url_id, urls, creates, resolves, incr_log, enc>>

\* std::env::var("SECRET_KEY").unwrap_or_else(|_| "default_secret".to_string())
secret_key ==
  IF env = {} THEN DefaultSecret ELSE CHOOSE k \in env : TRUE

\* A POST /shorten request.  pc is the handler's position; long_url, id and
\* short_url are its locals (0 and <<>>: not yet assigned); status and body are
\* its response (0: none yet).  incr_res and insert_res are what the two store
\* calls returned to the handler ("": not yet, "ok", "err"), incr_calls and
\* insert_calls how many times it made them.  incr_val is the value Redis's
\* INCR produced for this request (0: not executed) and wrote tells whether
\* Cassandra executed its INSERT: what the stores did, whatever the handler
\* came to know of it.  resp_short_url and resp_long_url are the fields of
\* the Url sent as the JSON body of 201 Created.
NoCreate ==
  [ pc |-> "idle", long_url |-> <<>>, id |-> 0, short_url |-> <<>>,
    incr_calls |-> 0, incr_res |-> "", incr_val |-> 0,
    insert_calls |-> 0, insert_res |-> "", wrote |-> FALSE,
    status |-> 0, body |-> "",
    resp_short_url |-> <<>>, resp_long_url |-> <<>> ]

\* A GET /:short_url request.  short is the path; select_res is what the
\* store call returned to the handler, select_calls how many times it made
\* it, rows what Cassandra's SELECT found; status and location are the
\* response.  known tells whether, when the request arrived, a create had
\* answered 201 Created with this code.
NoResolve ==
  [ pc |-> "idle", short |-> <<>>, known |-> FALSE,
    select_calls |-> 0, select_res |-> "", rows |-> <<>>,
    status |-> 0, location |-> <<>> ]

\* Two calls of generate_short_url side by side: the argument and the
\* result of each (called: the call was made).
EncSlots == {1, 2}

NoCall == [called |-> FALSE, id |-> 0, code |-> <<>>]

Init ==
  /\ enc = [s \in EncSlots |-> NoCall]
  /\ env \in EnvValues
  /\ url_id = 0
  /\ urls = <<>>
  /\ creates = [c \in CreateIds |-> NoCreate]
  /\ resolves = [r \in ResolveIds |-> NoResolve]
  /\ incr_log = <<>>

\* ---- the stores' commands ------------------------------------------------

\* A faulty allocator: the key is set to delta (SET) instead of incremented.
IncrOverwrites(value, delta) == delta

\* Redis INCRBY key delta: the new value, stored and returned.
Incr(value, delta) == value + delta

\* A column of a row that no statement has set: a set of values, empty.
Null == {}

\* INSERT INTO urls (short_url, long_url) VALUES (?, ?): CQL's INSERT writes
\* the named columns of the row under its primary key, whether or not one is
\* there.  The table's third column, created_at timestamp, is not named: it
\* is null in a new row and keeps its value in an existing one.
Insert(table, short_url, long_url) ==
  [k \in DOMAIN table \cup {short_url} |->
     IF k = short_url
     THEN [long_url |-> long_url,
           created_at |-> IF k \in DOMAIN table
                          THEN table[k].created_at ELSE Null]
     ELSE table[k]]

\* A faulty query: when the key is absent it falls back to the table's rows.
SelectAnyRow(table, short) ==
  IF short \in DOMAIN table THEN <<table[short].long_url>>
  ELSE IF DOMAIN table = {} THEN <<>>
  ELSE <<table[CHOOSE k \in DOMAIN table : TRUE].long_url>>

\* SELECT long_url FROM urls WHERE short_url = ?: the rows found.
Select(table, short) ==
  IF short \in DOMAIN table THEN <<table[short].long_url>> ELSE <<>>

\* ---- POST /shorten: create_shorten_url -----------------------------------

\* The request arrives with its JSON payload; the handler runs up to the
\* await of redis_conn.incr("url_id", 1).  (Requests are numbered in their
\* order of arrival.)
CreateRequest(c, payload) ==
  /\ creates[c].pc = "idle"
  /\ IF c = 1 THEN TRUE ELSE creates[c - 1].pc # "idle"
  /\ creates' = [creates EXCEPT ![c].pc = "incr", ![c].long_url = payload,
                                ![c].incr_calls = @ + 1]
  /\ UNCHANGED <<enc, env, url_id, urls, resolves, incr_log>>

\* Redis executes the command INCR url_id; the answer is on its way back.
RedisIncr(c) ==
  /\ creates[c].pc = "incr"
  /\ url_id' = Incr(url_id, 1)
  /\ incr_log' = Append(incr_log, url_id')
  /\ creates' = [creates EXCEPT ![c].pc = "incr_reply",
                                ![c].incr_val = url_id']
  /\ UNCHANGED <<enc, env, urls, resolves>>

\* A faulty handler: on a failed increment it compensates with a DECR.
CreateIncrErrRollsBack(c) ==
  /\ creates[c].pc \in {"incr", "incr_reply"}
  /\ url_id' = url_id - 1
  /\ creates' = [creates EXCEPT ![c].pc = "done", ![c].incr_res = "err",
                                ![c].status = 500,
                                ![c].body = "Redis Error"]
  /\ UNCHANGED <<enc, env, urls, resolves, incr_log>>

\* A faulty handler: the error is swallowed (unwrap_or_default), the id is 0
\* and the handler goes on to encode and to insert.
CreateIncrErrContinues(c) ==
  /\ creates[c].pc \in {"incr", "incr_reply"}
  /\ creates' = [creates EXCEPT
                   ![c].pc = "insert",
                   ![c].incr_res = "err",
                   ![c].short_url = generate_short_url(secret_key, BaseOffset),
                   ![c].insert_calls = @ + 1]
  /\ UNCHANGED <<enc, env, url_id, urls, resolves, incr_log>>

\* The call returns Err: the command did not reach Redis (pc = "incr"), or
\* Redis executed it and the answer was lost or late (pc = "incr_reply").
\* Err(e) => return (INTERNAL_SERVER_ERROR, "Redis Error")
CreateIncrErr(c) ==
  /\ creates[c].pc \in {"incr", "incr_reply"}
  /\ creates' = [creates EXCEPT ![c].pc = "done", ![c].incr_res = "err",
                                ![c].status = 500,
                                ![c].body = "Redis Error"]
  /\ UNCHANGED <<enc, env, url_id, urls, resolves, incr_log>>

\* A faulty handler: INCR's answer is discarded and the counter is read
\* afterwards (GET url_id), so the id is whatever the counter holds by then.
CreateIncrOkReadsCounter(c) ==
  /\ creates[c].pc = "incr_reply"
  /\ LET id == url_id
         id_adjusted == id + BaseOffset
     IN creates' = [creates EXCEPT
                      ![c].pc = "insert",
                      ![c].incr_res = "ok",
                      ![c].id = id,
                      ![c].insert_calls = @ + 1,
                      ![c].short_url =
                         generate_short_url(secret_key, id_adjusted)]
  /\ UNCHANGED <<enc, env, url_id, urls, resolves, incr_log>>

\* A faulty handler: the identifier is encoded as it is, without the offset.
CreateIncrOkNoOffset(c) ==
  /\ creates[c].pc = "incr_reply"
  /\ LET id == creates[c].incr_val
     IN creates' = [creates EXCEPT
                      ![c].pc = "insert",
                      ![c].incr_res = "ok",
                      ![c].id = id,
                      ![c].insert_calls = @ + 1,
                      ![c].short_url = generate_short_url(secret_key, id)]
  /\ UNCHANGED <<enc, env, url_id, urls, resolves, incr_log>>

\* The call returns Ok(val): id = val; id_adjusted = id + 14_000_000;
\* short_url = generate_short_url(&secret_key, id_adjusted); the handler runs
\* up to the await of the INSERT.  (The u64 addition does not wrap: a Redis
\* counter is a signed 64-bit integer, so val + 14_000_000 < 2^64.)
CreateIncrOk(c) ==
  /\ creates[c].pc = "incr_reply"
  /\ LET id == creates[c].incr_val
         id_adjusted == id + BaseOffset
     IN creates' = [creates EXCEPT
                      ![c].pc = "insert",
                      ![c].incr_res = "ok",
                      ![c].id = id,
                      ![c].insert_calls = @ + 1,
                      ![c].short_url =
                         generate_short_url(secret_key, id_adjusted)]
  /\ UNCHANGED <<enc, env, url_id, urls, resolves, incr_log>>

\* Cassandra executes the INSERT; the answer is on its way back.
CassandraInsert(c) ==
  /\ creates[c].pc = "insert"
  /\ urls' = Insert(urls, creates[c].short_url, creates[c].long_url)
  /\ creates' = [creates EXCEPT ![c].pc = "insert_reply", ![c].wrote = TRUE]
  /\ UNCHANGED <<enc, env, url_id, resolves, incr_log>>

\* A faulty handler: on a failed write it gives the identifier back (DECR).
CreateInsertErrRollsBack(c) ==
  /\ creates[c].pc \in {"insert", "insert_reply"}
  /\ url_id' = url_id - 1
  /\ creates' = [creates EXCEPT ![c].pc = "done", ![c].insert_res = "err",
                                ![c].status = 500,
                                ![c].body = "Database Error"]
  /\ UNCHANGED <<enc, env, urls, resolves, incr_log>>

\* A faulty handler: a failed INSERT is sent once more before giving up.
CreateInsertErrRetries(c) ==
  /\ creates[c].pc \in {"insert", "insert_reply"}
  /\ creates' =
       IF creates[c].insert_calls < 2
       THEN [creates EXCEPT ![c].pc = "insert", ![c].insert_calls = @ + 1]
       ELSE [creates EXCEPT ![c].pc = "done", ![c].insert_res = "err",
                            ![c].status = 500,
                            ![c].body = "Database Error"]
  /\ UNCHANGED <<enc, env, url_id, urls, resolves, incr_log>>

\* The call returns Err: the statement did not reach Cassandra (pc =
\* "insert"), or Cassandra executed it and the answer was lost or timed out
\* (pc = "insert_reply").
\* if let Err(e) = ... { return (INTERNAL_SERVER_ERROR, "Database Error") }
CreateInsertErr(c) ==
  /\ creates[c].pc \in {"insert", "insert_reply"}
  /\ creates' = [creates EXCEPT ![c].pc = "done", ![c].insert_res = "err",
                                ![c].status = 500,
                                ![c].body = "Database Error"]
  /\ UNCHANGED <<enc, env, url_id, urls, resolves, incr_log>>

\* A faulty handler: the INSERT is not awaited; 201 Created is answered as
\* soon as the statement is sent, and the statement is not executed later.
CreateInsertOkUnawaited(c) ==
  /\ creates[c].pc \in {"insert", "insert_reply"}
  /\ creates' = [creates EXCEPT ![c].pc = "done", ![c].insert_res = "ok",
                                ![c].status = 201,
                                ![c].body = "Url",
                                ![c].resp_short_url = creates[c].short_url,
                                ![c].resp_long_url = creates[c].long_url]
  /\ UNCHANGED <<enc, env, url_id, urls, resolves, incr_log>>

\* The call returns Ok:
\* (StatusCode::CREATED, Json(Url { short_url: Some(short_url), long_url }))
CreateInsertOk(c) ==
  /\ creates[c].pc = "insert_reply"
  /\ creates' = [creates EXCEPT ![c].pc = "done", ![c].insert_res = "ok",
                                ![c].status = 201,
                                ![c].body = "Url",
                                ![c].resp_short_url = creates[c].short_url,
                                ![c].resp_long_url = creates[c].long_url]
  /\ UNCHANGED <<enc, env, url_id, urls, resolves, incr_log>>

\* The client disconnects while the handler is suspended at an await: the
\* handler's future is dropped there and no later line of it runs.
CreateDropped(c) ==
  /\ creates[c].pc \in {"incr", "incr_reply", "insert", "insert_reply"}
  /\ creates' = [creates EXCEPT ![c].pc = "dropped"]
  /\ UNCHANGED <<enc, env, url_id, urls, resolves, incr_log>>

\* ---- GET /:short_url: redirect_to_long_url -------------------------------

\* The paths the clients ask for: the codes of the identifiers the counter can
\* give out, and the code of identifier 0, which it never gives out.
Paths == { generate_short_url(secret_key, BaseOffset + i) : i \in 0..MaxCreates }

\* result.single_row_typed::<UrlRow>() is Ok exactly when there is one row.
single_row_typed(rows) == Len(rows) = 1

\* Redirect::to(uri) builds the Location header with
\* HeaderValue::try_from(uri).expect("URI isn't a valid header value"):
\* a byte below 32 other than tab, or 127, makes it panic.
HeaderValueOk(uri) ==
  \A i \in 1..Len(uri) : (uri[i] >= 32 /\ uri[i] # 127) \/ uri[i] = 9

\* The request arrives; the handler runs up to the await of the SELECT.
ResolveRequest(r, short) ==
  /\ resolves[r].pc = "idle"
  /\ IF r = 1 THEN TRUE ELSE resolves[r - 1].pc # "idle"
  /\ resolves' = [resolves EXCEPT
                    ![r].pc = "select",
                    ![r].short = short,
                    ![r].select_calls = @ + 1,
                    ![r].known = \E c \in CreateIds :
                                    /\ creates[c].status = 201
                                    /\ creates[c].short_url = short]
  /\ UNCHANGED <<enc, env, url_id, urls, creates, incr_log>>

\* A faulty query: the row is consumed by the read (a one-time link).
CassandraSelectDeletes(r) ==
  /\ resolves[r].pc = "select"
  /\ resolves' = [resolves EXCEPT
                    ![r].pc = "select_reply",
                    ![r].rows = Select(urls, resolves[r].short)]
  /\ urls' = [k \in DOMAIN urls \ {resolves[r].short} |-> urls[k]]
  /\ UNCHANGED <<enc, env, url_id, creates, incr_log>>

\* Cassandra executes the SELECT; the answer is on its way back.
CassandraSelect(r) ==
  /\ resolves[r].pc = "select"
  /\ resolves' = [resolves EXCEPT
                    ![r].pc = "select_reply",
                    ![r].rows = Select(urls, resolves[r].short)]
  /\ UNCHANGED <<enc, env, url_id, urls, creates, incr_log>>

\* A faulty handler: a failed query is read as an empty result
\* (`if let Ok(result)` with the 404 as the fall-through).
ResolveSelectErrAsNotFound(r) ==
  /\ resolves[r].pc \in {"select", "select_reply"}
  /\ resolves' = [resolves EXCEPT ![r].pc = "done", ![r].select_res = "err",
                                  ![r].status = 404]
  /\ UNCHANGED <<enc, env, url_id, urls, creates, incr_log>>

\* The call returns Err (the query did not reach Cassandra, or its answer was
\* lost): Err(e) => (INTERNAL_SERVER_ERROR, "Database Error")
ResolveSelectErr(r) ==
  /\ resolves[r].pc \in {"select", "select_reply"}
  /\ resolves' = [resolves EXCEPT ![r].pc = "done", ![r].select_res = "err",
                                  ![r].status = 500]
  /\ UNCHANGED <<enc, env, url_id, urls, creates, incr_log>>

\* The call returns Ok(result).  One row: Redirect::to(&row.long_url), a 303
\* See Other, or the panic of an invalid header value, which ends the task
\* with no response.  Otherwise (NOT_FOUND, "URL not found").
ResolveSelectOk(r) ==
  /\ resolves[r].pc = "select_reply"
  /\ LET rows == resolves[r].rows
     IN resolves' =
          IF single_row_typed(rows)
          THEN IF HeaderValueOk(rows[1])
               THEN [resolves EXCEPT ![r].pc = "done", ![r].select_res = "ok",
                                     ![r].status = 303,
                                     ![r].location = rows[1]]
               ELSE [resolves EXCEPT ![r].pc = "panicked",
                                     ![r].select_res = "ok"]
          ELSE [resolves EXCEPT ![r].pc = "done", ![r].select_res = "ok",
                                ![r].status = 404]
  /\ UNCHANGED <<enc, env, url_id, urls, creates, incr_log>>

\* The client disconnects while the handler awaits the SELECT.
ResolveDropped(r) ==
  /\ resolves[r].pc \in {"select", "select_reply"}
  /\ resolves' = [resolves EXCEPT ![r].pc = "dropped"]
  /\ UNCHANGED <<enc, env, url_id, urls, creates, incr_log>>

\* ---- the service -----------------------------------------------------------
Next ==
  \/ \E c \in CreateIds, payload \in LongUrls : CreateRequest(c, payload)
  \/ \E c \in CreateIds : RedisIncr(c)
  \/ \E c \in CreateIds : CreateIncrErr(c)
  \/ \E c \in CreateIds : CreateIncrOk(c)
  \/ \E c \in CreateIds : CassandraInsert(c)
  \/ \E c \in CreateIds : CreateInsertErr(c)
  \/ \E c \in CreateIds : CreateInsertOk(c)
  \/ \E c \in CreateIds : CreateDropped(c)
  \/ \E r \in ResolveIds, short \in Paths : ResolveRequest(r, short)
  \/ \E r \in ResolveIds : CassandraSelect(r)
  \/ \E r \in ResolveIds : ResolveSelectErr(r)
  \/ \E r \in ResolveIds : ResolveSelectOk(r)
  \/ \E r \in ResolveIds : ResolveDropped(r)

Spec == Init /\ [][Next]_vars

\* ---- generate_short_url on its own ---------------------------------------

\* The identifiers encoded: 0, every one-digit identifier, the first
\* two-digit ones, both sides of the third digit, and the offset identifiers
\* of the service.
EncIds ==
  (0..MaxEncId) \cup {Radix * Radix - 1, Radix * Radix}
     \cup {BaseOffset + i : i \in 0..MaxCreates}

\* One call generate_short_url(&secret_key, id), its result kept in slot s.
EncodeCall(s, id) ==
  /\ enc' = [enc EXCEPT ![s] =
               [called |-> TRUE, id |-> id,
                code |-> generate_short_url(secret_key, id)]]
  /\ UNCHANGED <<env, url_id, urls, creates, resolves, incr_log>>

NextEncoder == \E s \in EncSlots, id \in EncIds : EncodeCall(s, id)

SpecEncoder == Init /\ [][NextEncoder]_vars

\* ---- properties ------------------------------------------------------------

\* The handler received an identifier: its incr call returned Ok(val).
Allocated(c) == creates[c].incr_res = "ok"

\* The handler reached the persistence step: it has computed short_url and
\* made the INSERT call.
ReachedInsert(c) == creates[c].insert_calls > 0

\* C1: the identifiers the increments return to create requests, in any
\* interleaving of the requests, are pairwise distinct.
C1_DistinctIdentifiers ==
  \A c1, c2 \in CreateIds :
    (c1 # c2 /\ Allocated(c1) /\ Allocated(c2))
      => creates[c1].id # creates[c2].id

\* Two requests in flight together, both holding an identifier.
C1_Witness ==
  \E c1, c2 \in CreateIds :
    /\ c1 # c2
    /\ creates[c1].pc = "insert"
    /\ creates[c2].pc = "insert"

\* C2: with the secret key fixed, any two creates that reach the persistence
\* step use different short codes as the key of their INSERT.
C2_DistinctShortCodes ==
  \A c1, c2 \in CreateIds :
    (c1 # c2 /\ ReachedInsert(c1) /\ ReachedInsert(c2))
      => creates[c1].short_url # creates[c2].short_url

\* Two requests whose INSERTs were both executed.
C2_Witness ==
  \E c1, c2 \in CreateIds :
    c1 # c2 /\ creates[c1].wrote /\ creates[c2].wrote

\* The handler of resolve r got the store's answer (its call returned Ok) and
\* ran to its end.
Answered(r) == resolves[r].select_res = "ok"

\* C3: round trip.  A resolve of a code that arrived after a create had
\* answered 201 Created with that code, and whose lookup succeeded, redirects
\* to exactly that create's long_url.
C3_RoundTrip ==
  \A r \in ResolveIds, c \in CreateIds :
    ( /\ resolves[r].known
      /\ Answered(r)
      /\ creates[c].status = 201
      /\ creates[c].short_url = resolves[r].short )
      => ( /\ resolves[r].status = 303
           /\ resolves[r].location = creates[c].long_url )

\* The round trip of the long_urls that are valid header values: what holds
\* of the code as it is.
C3_RoundTripOfHeaderValues ==
  \A r \in ResolveIds, c \in CreateIds :
    ( /\ resolves[r].known
      /\ Answered(r)
      /\ creates[c].status = 201
      /\ creates[c].short_url = resolves[r].short
      /\ HeaderValueOk(creates[c].long_url) )
      => ( /\ resolves[r].status = 303
           /\ resolves[r].location = creates[c].long_url )

\* The record of create c: its short code, holding its long_url.
RecordOf(c) ==
  /\ creates[c].short_url \in DOMAIN urls
  /\ urls[creates[c].short_url].long_url = creates[c].long_url

\* C4, as claimed: a create that answered 201 Created has its record in the
\* store; a create that answered a server error has left no record.
C4_AllOrNothing ==
  \A c \in CreateIds :
    /\ creates[c].status = 201 => RecordOf(c)
    /\ creates[c].status = 500 =>
         /\ ~creates[c].wrote
         /\ creates[c].short_url \notin DOMAIN urls

\* C4, amended: a create that answered 201 Created has its record in the
\* store; one that answered "Redis Error" made no INSERT and has no record;
\* one that answered "Database Error" has either no record under its code or
\* its own complete record, the latter exactly when Cassandra executed the
\* INSERT before the call failed.
C4_AllOrNothingUnlessAnswerLost ==
  \A c \in CreateIds :
    /\ creates[c].status = 201 => RecordOf(c)
    /\ (creates[c].status = 500 /\ creates[c].body = "Redis Error") =>
         /\ creates[c].insert_calls = 0
         /\ ~creates[c].wrote
    /\ (creates[c].status = 500 /\ creates[c].body = "Database Error") =>
         /\ creates[c].short_url \in DOMAIN urls <=> creates[c].wrote
         /\ creates[c].wrote => RecordOf(c)
    /\ creates[c].status \in {0, 201, 500}

\* Every outcome side by side: a 201 with its record, and a "Database Error"
\* of a statement that was never executed.
C4_Witness ==
  \E c1, c2 \in CreateIds :
    /\ creates[c1].status = 201
    /\ creates[c2].body = "Database Error"
    /\ ~creates[c2].wrote

\* C5: a create whose increment call failed answers a server error without
\* encoding and without an INSERT, and no record is under the code of the
\* identifier Redis may have produced for it.
C5_IncrementFailureAborts ==
  \A c \in CreateIds :
    creates[c].incr_res = "err" =>
      /\ creates[c].pc = "done"
      /\ creates[c].status = 500
      /\ creates[c].body = "Redis Error"
      /\ creates[c].short_url = <<>>
      /\ creates[c].insert_calls = 0
      /\ ~creates[c].wrote
      /\ generate_short_url(secret_key, creates[c].incr_val + BaseOffset)
           \notin DOMAIN urls

\* A failed increment whose identifier Redis had produced, while another
\* create's record is in the store.
C5_Witness ==
  \E c1, c2 \in CreateIds :
    /\ creates[c1].incr_res = "err"
    /\ creates[c1].incr_val > 0
    /\ creates[c2].wrote

\* Allocation succeeded and the persistence call failed.
WriteFailed(c) == creates[c].incr_res = "ok" /\ creates[c].insert_res = "err"

\* The identifier of create c is skipped: no other request holds it, the
\* counter is not below it, and c made its INSERT call once.
Skipped(c) ==
  /\ \A d \in CreateIds \ {c} : creates[d].incr_val # creates[c].id
  /\ url_id >= creates[c].id
  /\ creates[c].insert_calls = 1
  /\ creates[c].pc = "done"

\* C6, as claimed: after a failed write the identifier is skipped and no
\* record for its short code is in the store.
C6_FailedWriteLeavesNoRecord ==
  \A c \in CreateIds :
    WriteFailed(c) =>
      /\ Skipped(c)
      /\ creates[c].short_url \notin DOMAIN urls

\* C6, amended: after a failed write the identifier is skipped (never given
\* to another request, the write not retried, the counter not rolled back);
\* a record is under its short code only if Cassandra executed this request's
\* own INSERT before the call failed, and then it is this request's record.
C6_FailedWriteSkipsIdentifier ==
  \A c \in CreateIds :
    WriteFailed(c) =>
      /\ Skipped(c)
      /\ creates[c].short_url \in DOMAIN urls <=> creates[c].wrote
      /\ creates[c].wrote => RecordOf(c)

\* A failed write, and a later create that was given the next identifier.
C6_Witness ==
  \E c1, c2 \in CreateIds :
    /\ WriteFailed(c1)
    /\ Allocated(c2)
    /\ creates[c2].id > creates[c1].id

\* C7: a record, once in the store, is never changed or removed: no step of
\* any create or resolve request changes the long_url under an existing code.
C7_RecordsNeverChange ==
  [][\A k \in DOMAIN urls : k \in DOMAIN urls' /\ urls'[k] = urls[k]]_vars

\* Two executed INSERTs of different long_urls, and a resolve that has run.
C7_Witness ==
  \E c1, c2 \in CreateIds, r \in ResolveIds :
    /\ creates[c1].wrote
    /\ creates[c2].wrote
    /\ creates[c1].long_url # creates[c2].long_url
    /\ resolves[r].pc = "done"

\* C8: a resolve of a code that no create has persisted never redirects, and
\* answers 404 Not Found whenever its lookup succeeds.
C8_MissIsNotFound ==
  \A r \in ResolveIds :
    (resolves[r].pc # "idle" /\ resolves[r].short \notin DOMAIN urls) =>
      /\ resolves[r].status # 303
      /\ resolves[r].pc # "panicked"
      /\ resolves[r].location = <<>>
      /\ Answered(r) => (resolves[r].pc = "done" /\ resolves[r].status = 404)

\* A miss answered 404 while another code's record is in the store.
C8_Witness ==
  \E r \in ResolveIds :
    /\ resolves[r].status = 404
    /\ resolves[r].short \notin DOMAIN urls
    /\ DOMAIN urls # {}

\* The values INCR returned are strictly increasing in the order Redis
\* executed the increments.
IncrLogIncreasing ==
  \A i, j \in 1..Len(incr_log) : i < j => incr_log[i] < incr_log[j]

\* C9: the identifiers are strictly increasing in the order the increments
\* take effect, and no step of any request, failed and abandoned ones
\* included, decreases the counter.
C9_IdentifiersIncrease ==
  [][url_id' >= url_id /\ IncrLogIncreasing']_vars

\* A create abandoned after its allocation, and a later allocation.
C9_Witness ==
  \E c1, c2 \in CreateIds :
    /\ creates[c1].pc = "dropped"
    /\ creates[c1].incr_val > 0
    /\ creates[c2].incr_val > creates[c1].incr_val

\* C10, as claimed: when the increment call of a create fails, no identifier
\* was consumed: Redis executed no INCR for that request.
C10_FailedIncrementConsumesNothing ==
  \A c \in CreateIds :
    creates[c].incr_res = "err" => creates[c].incr_val = 0

\* C10, amended: when the increment call of a create fails, the request
\* made that one call and holds no identifier, and the call moved the
\* counter by nothing (the command did not reach Redis) or by the one
\* identifier Redis produced before the answer was lost: that identifier is
\* consumed, the counter stays at or above it and no other request is given it.
C10_FailedIncrementConsumesAtMostOne ==
  \A c \in CreateIds :
    creates[c].incr_res = "err" =>
      /\ creates[c].incr_calls = 1
      /\ creates[c].id = 0
      /\ creates[c].incr_val \in
           {0} \cup {incr_log[i] : i \in 1..Len(incr_log)}
      /\ url_id >= creates[c].incr_val
      /\ \A d \in CreateIds \ {c} :
           creates[c].incr_val > 0 =>
             creates[d].incr_val # creates[c].incr_val

\* Both failures: one create's command never reached Redis, another's was
\* executed and its answer lost.
C10_Witness ==
  \E c1, c2 \in CreateIds :
    /\ creates[c1].incr_res = "err" /\ creates[c1].incr_val = 0
    /\ creates[c2].incr_res = "err" /\ creates[c2].incr_val > 0

\* C11: injectivity.  With the secret key fixed, two calls of
\* generate_short_url on different identifiers, 0 included, give different
\* codes.
C11_EncoderInjective ==
  \A s1, s2 \in EncSlots :
    (enc[s1].called /\ enc[s2].called /\ enc[s1].id # enc[s2].id)
      => enc[s1].code # enc[s2].code

\* Identifier 0 (the special case) beside the first identifier whose low
\* digit is 0.
C11_Witness ==
  /\ enc[1].called /\ enc[1].id = 0
  /\ enc[2].called /\ enc[2].id = Radix

\* C13: no empty code.  generate_short_url(key, 0) is the one symbol at
\* index 0 of the shuffled alphabet, and every code returned has at least
\* one character.
C13_NoEmptyCode ==
  \A s \in EncSlots :
    enc[s].called =>
      /\ Len(enc[s].code) >= 1
      /\ enc[s].id = 0 => enc[s].code = <<ShuffledAlphabets[secret_key][1]>>

\* Identifier 0 has been encoded, and so has one with several digits.
C13_Witness ==
  /\ enc[1].called /\ enc[1].id = 0 /\ enc[1].code # <<>>
  /\ enc[2].called /\ enc[2].id = Radix * Radix

\* C14: alphabet closure.  Every character of every code generate_short_url
\* returns, whatever the key and the identifier, is one of the 62 symbols
\* a-z, A-Z, 0-9.
C14_AlphabetClosure ==
  LET lower == {"a","b","c","d","e","f","g","h","i","j","k","l","m",
                "n","o","p","q","r","s","t","u","v","w","x","y","z"}
      upper == {"A","B","C","D","E","F","G","H","I","J","K","L","M",
                "N","O","P","Q","R","S","T","U","V","W","X","Y","Z"}
      digit == {"0","1","2","3","4","5","6","7","8","9"}
  IN /\ Cardinality(lower \cup upper \cup digit) = Radix
     /\ \A s \in EncSlots :
          enc[s].called =>
            \A i \in 1..Len(enc[s].code) :
              enc[s].code[i] \in lower \cup upper \cup digit

\* Codes under the default key and under a configured key, one of them of
\* four characters.
C14_Witness ==
  /\ env # {}
  /\ enc[1].called /\ Len(enc[1].code) = 4
  /\ enc[2].called /\ Len(enc[2].code) = 1

\* The create that was given the first identifier of a fresh counter, past
\* the encoding of its code.
FirstCreate(c) == creates[c].id = 1 /\ creates[c].short_url # <<>>

\* C15 (as stated): the first allocated id, 1, gives the offset id 14,000,001
\* and a code of 5 or 6 characters.
C15_FirstCodeFiveOrSix ==
  \A c \in CreateIds :
    FirstCreate(c) =>
      /\ creates[c].id + BaseOffset = 14000001
      /\ Len(creates[c].short_url) \in {5, 6}

\* C15 (amended): the first allocated id, 1, gives the offset id 14,000,001
\* and a code of exactly 4 characters, under either secret key
\* (62^3 <= 14,000,001 < 62^4).
C15_FirstCodeFourChars ==
  \A c \in CreateIds :
    FirstCreate(c) =>
      /\ creates[c].id + BaseOffset = 14000001
      /\ creates[c].short_url =
           generate_short_url(secret_key, creates[c].id + BaseOffset)
      /\ Len(creates[c].short_url) = 4
      /\ Radix * Radix * Radix <= creates[c].id + BaseOffset
      /\ creates[c].id + BaseOffset < Radix * Radix * Radix * Radix

\* The scenario: SECRET_KEY is not set ("default_secret") and the create
\* holding id 1 has been answered 201 Created.
C15_Witness ==
  /\ env = {}
  /\ \E c \in CreateIds : FirstCreate(c) /\ creates[c].status = 201

\* C16 (as stated): every record create persists carries its short code,
\* its long URL and a created_at that has been set (to the time of creation).
C16_RecordsCarryCreatedAt ==
  \A c \in CreateIds :
    creates[c].wrote =>
      /\ creates[c].short_url \in DOMAIN urls
      /\ urls[creates[c].short_url].long_url = creates[c].long_url
      /\ urls[creates[c].short_url].created_at # Null

\* What the code does instead: every record has its short code and long
\* URL, and created_at is null in all of them.
C16_CreatedAtNeverSet ==
  \A k \in DOMAIN urls :
    /\ urls[k].created_at = Null
    /\ \E c \in CreateIds :
         /\ creates[c].wrote
         /\ creates[c].short_url = k
         /\ creates[c].long_url = urls[k].long_url

\* The store call of resolve r returned Err to the handler.
LookupFailed(r) == resolves[r].select_res = "err"

\* C17: when the store lookup of a resolve fails, the request answers a
\* server error (5xx): neither 404 Not Found nor a redirect.
C17_LookupFailureIsServerError ==
  \A r \in ResolveIds :
    LookupFailed(r) =>
      /\ resolves[r].pc = "done"
      /\ resolves[r].status \in 500..599
      /\ resolves[r].location = <<>>

\* A lookup failed for a code whose record is in the table, and one failed
\* after Cassandra had found the row.
C17_Witness ==
  \E r \in ResolveIds :
    /\ LookupFailed(r)
    /\ resolves[r].short \in DOMAIN urls
    /\ resolves[r].rows # <<>>

\* C18: the code a create answered 201 Created persists and returns is
\* generate_short_url(secret_key, id + 14_000_000) for the id its own INCR
\* returned; the row's key and the response carry that same code, both
\* paired with the request's long_url.
C18_CodeIsEncodingOfOwnId ==
  \A c \in CreateIds :
    creates[c].status = 201 =>
      /\ creates[c].incr_val > 0
      /\ creates[c].id = creates[c].incr_val
      /\ creates[c].short_url =
           generate_short_url(secret_key, creates[c].id + BaseOffset)
      /\ RecordOf(c)
      /\ creates[c].resp_short_url = creates[c].short_url
      /\ creates[c].resp_long_url = creates[c].long_url

\* Two creates that ran side by side, both answered 201 Created; the one
\* that arrived first holds the later identifier.
C18_Witness ==
  /\ creates[1].status = 201 /\ creates[2].status = 201
  /\ creates[1].id = 2 /\ creates[2].id = 1
  /\ creates[1].long_url # creates[2].long_url

\* C19: no retry.  A create makes at most one INCR call and at most one
\* INSERT call, a resolve at most one SELECT call; a call that fails ends its
\* request at once with a server error, later calls unmade.
C19_NoRetry ==
  /\ \A c \in CreateIds :
       /\ creates[c].incr_calls <= 1
       /\ creates[c].insert_calls <= 1
       /\ creates[c].incr_res = "err" =>
            /\ creates[c].pc = "done" /\ creates[c].status \in 500..599
            /\ creates[c].insert_calls = 0
       /\ creates[c].insert_res = "err" =>
            creates[c].pc = "done" /\ creates[c].status \in 500..599
       /\ creates[c].pc \in {"insert", "insert_reply"} =>
            creates[c].insert_calls = 1
  /\ \A r \in ResolveIds :
       /\ resolves[r].select_calls <= 1
       /\ resolves[r].select_res = "err" =>
            resolves[r].pc = "done" /\ resolves[r].status \in 500..599

\* All three calls have failed: the INCR of one create, the INSERT of
\* another, the SELECT of a resolve.
C19_Witness ==
  /\ \E c \in CreateIds : creates[c].incr_res = "err"
  /\ \E c \in CreateIds : creates[c].insert_res = "err"
  /\ \E r \in ResolveIds : resolves[r].select_res = "err"

\* C20: resolve is read-only.  Every step of a resolve request, whatever the
\* request's outcome, leaves the counter, the table and the create requests
\* as they are; the rows it gets are those stored under the path itself, the
\* path being used as the key and never turned into an identifier.
C20_ResolveIsReadOnly ==
  [][ resolves' # resolves =>
        /\ url_id' = url_id
        /\ incr_log' = incr_log
        /\ urls' = urls
        /\ creates' = creates
        /\ \A r \in ResolveIds :
             resolves'[r].rows # resolves[r].rows =>
               resolves'[r].rows = Select(urls, resolves[r].short) ]_vars

\* Resolves ended in each of the three outcomes are reachable; here the
\* redirect, with the counter advanced and the table holding records.
C20_Witness ==
  /\ url_id > 0
  /\ DOMAIN urls # {}
  /\ \E r \in ResolveIds :
       /\ resolves[r].pc = "done"
       /\ resolves[r].status = 303
       /\ resolves[r].short \in DOMAIN urls

====
